---- MODULE Spec2Model ----
(***************************************************************************)
(* Akilang lowering engines as a state machine.                            *)
(*                                                                         *)
(* The repository holds two generations of the same lowering engine and a  *)
(* third implementation of variable declaration:                           *)
(*   "aki"  : AkiCodeGen          (src/aki/core/codegen.py)                *)
(*   "core" : LLVMCodeGenerator   (src/core/codegen.py)                    *)
(*   "vars" : Vars mixin          (src/core/codegen/vars.py)               *)
(* A behaviour is one engine object walking syntax trees depth first: a    *)
(* handler that lowers a body (function, loop, if/when) is an Enter step,  *)
(* the steps of its body, and a Leave step that runs the rest of the       *)
(* handler.  Python exceptions abort the walk of the current unit.         *)
(* Python `assert` statements are executed (the default interpreter).      *)
(***************************************************************************)
EXTENDS Integers, Sequences, FiniteSets, TLC

VARIABLES
    engine,       \* which implementation this engine object is
    mode,         \* "top" | "body" | "failed": position of the tree walk
    open,         \* stack of handlers whose body is being lowered
    breakpoints,  \* aki: FuncState.breakpoints; core: self.loop_exit
    closed,       \* the builder's current block already has a terminator
    nblk,         \* basic blocks created so far (block ids are 1..nblk)
    last,         \* what the last handler returned or raised
    symtab,       \* aki: FuncState.symtab; core/vars: self.func_symtab
    globals,      \* module.globals restricted to plain names
    peers,        \* aki: other_modules, each peer's module.globals
    nslot,        \* storage locations allocated so far
    funcs,        \* the ir.Function objects in module.globals, in order
    opt_args_funcs, \* core: self.opt_args_funcs, key -> index into funcs
    fn,           \* the prototype of the function being lowered
    rets,         \* ret instructions emitted for the function lowered last
    func_returncalled, \* core: self.func_returncalled
    unsafe_set    \* aki: self.unsafe_set

vars == <<engine, mode, open, breakpoints, closed, nblk, last,
          symtab, globals, peers, nslot, funcs, opt_args_funcs, fn,
          rets, func_returncalled, unsafe_set>>

flowVars == <<open, breakpoints, closed, nblk>>
nameVars == <<symtab, globals, peers, nslot>>
callVars == <<funcs, opt_args_funcs>>
retVars  == <<rets, func_returncalled>>

(***************************************************************************)
(* Bounds of the model.                                                    *)
(***************************************************************************)
MaxDepth  == 2   \* nesting depth of open loop / if / when handlers
MaxBlocks == 3   \* loop exit blocks created by one engine object
MaxStack  == 3   \* length of the breakpoint stack
MaxSlots  == 3   \* storage locations created by one engine object
MaxPeers  == 2   \* peer modules registered
MaxFuncs  == 2   \* prototypes registered in one module
MaxParams == 3   \* parameters of a prototype
MaxArgs   == 3   \* arguments of a call

Engines   == {"aki", "core", "vars"}
FlowEngines == {"aki", "core"}
Types     == {"i32", "f64", "bool"}
Vals      == {0, 1, 2}
Names     == {"x", "y"}
FNames    == {"f"}
GNames    == Names \cup FNames
None      == [slot |-> 0, ty |-> "-", own |-> "-"]
Binding(slot, ty, own) == [slot |-> slot, ty |-> ty, own |-> own]
EmptyTable == [n \in GNames |-> None]

\* core: DEFAULT_TYPE; aki: typemgr._default
DEFAULT_TYPE == "i32"

\* a Prototype node: params are <<[ty, dflt]>>, rty a type or "unnamed";
\* vararg: the parameter list ends with a starred argument (aki);
\* extern: the node is an External declaration (aki)
Proto(name, params, rty) ==
    [name |-> name, params |-> params, rty |-> rty,
     vararg |-> FALSE, extern |-> FALSE]
NoProto == Proto("-", <<>>, "-")

ArithOps  == {"+", "-", "*", "/"}
CompOps   == {"<", ">", "<=", ">=", "==", "!="}
LogicOps  == {"and", "or"}
BinOps    == ArithOps \cup CompOps \cup LogicOps

(***************************************************************************)
(* What a handler returned or raised.                                      *)
(*   st  : "ok" a value handle, "none" Python None, "typeobj" a bare type  *)
(*         object, otherwise the class of the exception raised             *)
(*   ty  : the type attached to the handle                                 *)
(*   val : the run-time value of the handle when it is known, else -1      *)
(*   cls : "const" ir.Constant, "instr" ir.Instruction                     *)
(*   msg : the type names interpolated into an error message               *)
(*   tgt : the block a branch emitted by the handler targets, else 0       *)
(*   ref : the storage location (binding) the handle refers to, else 0     *)
(*   name : the identifier a name lookup or declaration was about         *)
(*   callee, args : the function a call instruction calls (index into      *)
(*         funcs) and what it passes: a type name for a supplied argument, *)
(*         "default" for a parameter's default value                       *)
(***************************************************************************)
Res(op, st, ty, val, cls, msg, tgt) ==
    [op |-> op, st |-> st, ty |-> ty, val |-> val, cls |-> cls,
     msg |-> msg, tgt |-> tgt, ref |-> 0, callee |-> 0, args |-> <<>>,
     name |-> "-"]

Ok(op, ty, val, cls) == Res(op, "ok", ty, val, cls, <<>>, 0)
Raise(op, kind, msg) == Res(op, kind, "-", -1, "-", msg, 0)
Nothing(op, tgt)     == Res(op, "none", "-", -1, "-", <<>>, tgt)
NoRes                == Nothing("-", 0)
Found(op, b)         == [Ok(op, b.ty, -1, "instr") EXCEPT !.ref = b.slot]
Named(r, n)          == [r EXCEPT !.name = n]

Raised(r) == r.st \notin {"ok", "none", "typeobj"}

\* llvmlite: IRBuilder.branch/cbranch assert that the block is not terminated
BranchAsserts == closed

(***************************************************************************)
(* Leaf and operator expressions.                                          *)
(***************************************************************************)

\* core: isinstance(vartype, ir.IntType); every other model type is a float
IntTypes == {"i32", "bool"}

\* aki: the operator tables (comp_ops, bin_ops) of the AkiType classes
AkiOpSupported(op, t) ==
    \/ op \in CompOps
    \/ op \in ArithOps /\ t \in {"i32", "f64"}
    \/ op \in LogicOps /\ t \in IntTypes

\* a type check that accepts every pair of operand types
type_check_op_any(lt, rt) == TRUE

\* aki: AkiCodeGen._type_check_op: TRUE when the operand types are compatible
type_check_op(lt, rt) == lt = rt

\* aki: _codegen_BinOpComparison / _codegen_BinOp on operands of types lt, rt
Aki_codegen_BinOp(op, lt, rt) ==
    IF ~type_check_op(lt, rt)
    THEN Raise(op, "AkiTypeErr", <<lt, rt>>)
    ELSE IF ~AkiOpSupported(op, lt)
    THEN Raise(op, "AkiOpError", <<lt>>)
    ELSE IF op \in CompOps
    THEN Ok(op, "bool", -1, "instr")
    ELSE Ok(op, lt, -1, "instr")

\* core: the instruction selection of _codegen_Binary for equal operand types
Core_BinaryRule(op, t, rzero) ==
    IF t \in IntTypes
    THEN IF op \in {"+", "-", "*"} THEN Ok(op, t, -1, "instr")
         ELSE IF op \in CompOps THEN Ok(op, "bool", -1, "instr")
         ELSE IF op = "/"
         THEN IF rzero THEN Raise(op, "CodegenError", <<>>)
              ELSE Ok(op, t, -1, "instr")
         ELSE Ok(op, "bool", -1, "instr")
    ELSE IF op \in ArithOps THEN Ok(op, t, -1, "instr")
         ELSE IF op \in {"<", ">", ">=", "<="} THEN Ok(op, t, -1, "instr")
         ELSE IF op \in {"==", "!="} THEN Ok(op, "bool", -1, "instr")
         ELSE Raise(op, "CodegenError", <<>>)

\* core: LLVMCodeGenerator._codegen_Binary (op is not "=")
Core_codegen_Binary(op, lt, rt, rzero) ==
    IF lt # rt
    THEN Raise(op, "CodegenError", <<lt, rt>>)
    ELSE Core_BinaryRule(op, lt, rzero)

\* The walk is aborted by an exception: the Python stack unwinds.
Abort(r) == /\ last' = r
            /\ mode' = "failed"
            /\ open' = <<>>

\* A handler that opens no body returns r or raises it.
Return(r) == IF Raised(r) THEN Abort(r)
             ELSE last' = r /\ UNCHANGED <<mode, open>>

\* aki: _codegen_Constant; core: _codegen_Number
codegen_Constant(t, v) ==
    /\ mode = "body"
    /\ engine \in FlowEngines
    /\ Return(Ok("const", t, v, "const"))
    /\ UNCHANGED <<engine, breakpoints, closed, nblk, nameVars, callVars, fn,
                   retVars, unsafe_set>>

\* a binary operation whose operands lower to the types lt and rt
codegen_Binary(op, lt, rt, rzero) ==
    /\ mode = "body"
    /\ engine \in FlowEngines
    /\ Return(IF engine = "aki" THEN Aki_codegen_BinOp(op, lt, rt)
              ELSE Core_codegen_Binary(op, lt, rt, rzero))
    /\ UNCHANGED <<engine, breakpoints, closed, nblk, nameVars, callVars, fn,
                   retVars, unsafe_set>>

(***************************************************************************)
(* Control flow: zero-condition loops, break, if / when.                   *)
(***************************************************************************)

\* one handler whose body is being lowered
Frame(kind, exit, isWhen, hasElse, phase, cty, cval, thenres) ==
    [kind |-> kind, exit |-> exit, isWhen |-> isWhen, hasElse |-> hasElse,
     phase |-> phase, cty |-> cty, cval |-> cval, thenres |-> thenres]

\* before: the breakpoint stack on entry to the loop
LoopFrame(exit, before) ==
    Frame("loop0", exit, FALSE, FALSE, "-", "-", -1, NoRes)
        @@ [before |-> before]
IfFrame(isWhen, hasElse, cty, cval) ==
    Frame("if", 0, isWhen, hasElse, "then", cty, cval, NoRes)

Top(stack)  == stack[Len(stack)]
Pop(stack)  == SubSeq(stack, 1, Len(stack) - 1)
Push(stack, e) == Append(stack, e)

\* core: the builder leaves the first body block of the innermost open
\* While loop: a nested construct terminates that block with its branch
LeaveBodyBlock(stack) ==
    IF stack # <<>> /\ stack[Len(stack)].kind = "while"
    THEN [stack EXCEPT ![Len(stack)].left = TRUE]
    ELSE stack

\* Python truthiness of a handler's return value (`if then_val:`)
Truthy(r) == r.st \in {"ok", "typeobj"}

\* aki: _codegen_Break: the block `break` branches to
Aki_BreakTarget(bp) == bp[Len(bp)]

\* aki: _codegen_Break leaves FuncState.breakpoints as it is
Aki_BreakStack(bp) == bp

\* core: _codegen_Break: `exit = self.loop_exit.pop()`
Core_BreakTarget(bp) == bp[Len(bp)]

\* core: _codegen_Break: the stack after `self.loop_exit.pop()`
Core_BreakStack(bp) == Pop(bp)

\* aki: AkiCodeGen._codegen_Break
Aki_codegen_Break ==
    IF breakpoints = <<>>
    THEN Abort(Raise("break", "AkiSyntaxErr", <<>>))
         /\ UNCHANGED <<breakpoints, closed>>
    ELSE IF BranchAsserts
    THEN Abort(Raise("break", "AssertionError", <<>>))
         /\ UNCHANGED <<breakpoints, closed>>
    ELSE /\ last' = Nothing("break", Aki_BreakTarget(breakpoints))
         /\ breakpoints' = Aki_BreakStack(breakpoints)
         /\ closed' = TRUE
         /\ UNCHANGED <<mode, open>>

\* core: LLVMCodeGenerator._codegen_Break
Core_codegen_Break ==
    IF breakpoints = <<>>
    THEN Abort(Raise("break", "IndexError", <<>>))
         /\ UNCHANGED <<breakpoints, closed>>
    ELSE /\ breakpoints' = Core_BreakStack(breakpoints)
         /\ IF BranchAsserts
            THEN Abort(Raise("break", "AssertionError", <<>>))
                 /\ UNCHANGED closed
            ELSE /\ last' = Nothing("break", Core_BreakTarget(breakpoints))
                 /\ closed' = TRUE
                 /\ UNCHANGED <<mode, open>>

codegen_Break ==
    /\ mode = "body"
    /\ engine \in FlowEngines
    /\ IF engine = "aki" THEN Aki_codegen_Break ELSE Core_codegen_Break
    /\ UNCHANGED <<engine, nblk, nameVars, callVars, fn,
                   retVars, unsafe_set>>

\* aki: _codegen_LoopExpr with node.conditions = [], up to the body
Aki_EnterLoop(exit) ==
    /\ breakpoints' = Push(breakpoints, exit)
    /\ IF BranchAsserts
       THEN Abort(Raise("loop", "AssertionError", <<>>)) /\ UNCHANGED closed
       ELSE /\ open' = Push(open, LoopFrame(exit, breakpoints))
            /\ closed' = FALSE
            /\ last' = NoRes
            /\ UNCHANGED mode

\* core: _codegen_Loop with node.start_expr = None, up to the body
Core_EnterLoop(exit) ==
    IF BranchAsserts
    THEN Abort(Raise("loop", "AssertionError", <<>>))
         /\ UNCHANGED <<breakpoints, closed>>
    ELSE /\ breakpoints' = Push(breakpoints, exit)
         /\ open' = Push(LeaveBodyBlock(open), LoopFrame(exit, breakpoints))
         /\ closed' = FALSE
         /\ last' = NoRes
         /\ UNCHANGED mode

EnterLoop ==
    /\ mode = "body"
    /\ engine \in FlowEngines
    /\ Len(open) < MaxDepth
    /\ nblk < MaxBlocks
    /\ Len(breakpoints) < MaxStack
    /\ nblk' = nblk + 1
    /\ IF engine = "aki" THEN Aki_EnterLoop(nblk + 1)
       ELSE Core_EnterLoop(nblk + 1)
    /\ UNCHANGED <<engine, nameVars, callVars, fn,
                   retVars, unsafe_set>>

\* aki: the breakpoint stack when the zero-condition loop is left
Aki_LeaveLoopStack(bp) == Pop(bp)

\* core: the loop_exit stack when the zero-condition loop is left
Core_LeaveLoopStack(bp) == bp

\* aki: _codegen_LoopExpr with node.conditions = [], after the body
Aki_LeaveLoop ==
    IF BranchAsserts
    THEN Abort(Raise("loop", "AssertionError", <<>>))
         /\ UNCHANGED <<breakpoints, closed>>
    ELSE /\ breakpoints' = Aki_LeaveLoopStack(breakpoints)
         /\ open' = Pop(open)
         /\ closed' = FALSE
         /\ UNCHANGED <<last, mode>>

\* core: _codegen_Loop with node.start_expr = None, after the body
Core_LeaveLoop ==
    IF BranchAsserts
    THEN Abort(Raise("loop", "AssertionError", <<>>))
         /\ UNCHANGED <<breakpoints, closed>>
    ELSE /\ breakpoints' = Core_LeaveLoopStack(breakpoints)
         /\ open' = Pop(open)
         /\ closed' = FALSE
         /\ last' = Nothing("loop", 0)
         /\ UNCHANGED mode

LeaveLoop ==
    /\ mode = "body"
    /\ engine \in FlowEngines
    /\ open # <<>>
    /\ Top(open).kind = "loop0"
    /\ IF engine = "aki" THEN Aki_LeaveLoop ELSE Core_LeaveLoop
    /\ UNCHANGED <<engine, nblk, nameVars, callVars, fn,
                   retVars, unsafe_set>>

\* aki: _scalar_as_bool builds LLVMNode(...), whose __init__ reads
\* self.llvm_node before assigning it: the constructor always raises
scalar_as_bool(op) == Raise(op, "AttributeError", <<>>)

\* the run-time value of a two-way merge on the condition value cval
Select(cval, t, e) == IF cval # 0 THEN t.val ELSE e.val

\* aki: _codegen_IfExpr, the condition and the conditional branch
Aki_EnterIf(isWhen, hasElse, cty, cval) ==
    LET op == IF isWhen THEN "when" ELSE "if" IN
    IF cty # "bool"
    THEN Abort(scalar_as_bool(op)) /\ UNCHANGED closed
    ELSE IF BranchAsserts
    THEN Abort(Raise(op, "AssertionError", <<>>)) /\ UNCHANGED closed
    ELSE /\ open' = Push(open, IfFrame(isWhen, hasElse, cty, cval))
         /\ closed' = FALSE
         /\ last' = NoRes
         /\ UNCHANGED mode

\* core: _codegen_If, the condition and the conditional branch
Core_EnterIf(isWhen, hasElse, cty, cval) ==
    LET op == IF isWhen THEN "when" ELSE "if" IN
    IF BranchAsserts
    THEN Abort(Raise(op, "AssertionError", <<>>)) /\ UNCHANGED closed
    ELSE /\ open' = Push(LeaveBodyBlock(open),
                         IfFrame(isWhen, hasElse, cty, cval))
         /\ closed' = FALSE
         /\ last' = NoRes
         /\ UNCHANGED mode

\* `if` / `when` whose condition is an atom of type cty and value cval
EnterIf(isWhen, hasElse, cty, cval) ==
    /\ mode = "body"
    /\ engine \in FlowEngines
    /\ Len(open) < MaxDepth
    /\ cty = "bool" => cval \in {0, 1}
    /\ IF engine = "aki" THEN Aki_EnterIf(isWhen, hasElse, cty, cval)
       ELSE Core_EnterIf(isWhen, hasElse, cty, cval)
    /\ UNCHANGED <<engine, breakpoints, nblk, nameVars, callVars, fn,
                   retVars, unsafe_set>>

\* the then branch has been lowered and an else branch follows
IfElse ==
    /\ mode = "body"
    /\ engine \in FlowEngines
    /\ open # <<>>
    /\ Top(open).kind = "if"
    /\ Top(open).phase = "then"
    /\ Top(open).hasElse
    /\ LET f  == Top(open)
           op == IF f.isWhen THEN "when" ELSE "if"
       IN IF engine = "core" /\ Truthy(last) /\ BranchAsserts
          THEN Abort(Raise(op, "AssertionError", <<>>)) /\ UNCHANGED closed
          ELSE /\ open' = Push(Pop(open),
                               [f EXCEPT !.phase = "else", !.thenres = last])
               /\ closed' = FALSE
               /\ last' = NoRes
               /\ UNCHANGED mode
    /\ UNCHANGED <<engine, breakpoints, nblk, nameVars, callVars, fn,
                   retVars, unsafe_set>>

\* core: _codegen_If after both branches: early-return pruning, `when`,
\* the branch type check and the phi
Core_IfResult(isWhen, cty, cval, t, e) ==
    LET op == IF isWhen THEN "when" ELSE "if" IN
    IF t.st = "none" /\ e.st = "none" THEN Nothing(op, 0)
    ELSE IF ~Truthy(e)
    THEN IF t.st = "typeobj" THEN Raise(op, "AttributeError", <<>>)
         ELSE Res(op, "typeobj", t.ty, -1, "-", <<>>, 0)
    ELSE IF ~Truthy(t) THEN Res(op, "typeobj", e.ty, -1, "-", <<>>, 0)
    ELSE IF isWhen THEN Ok(op, cty, cval, "const")
    ELSE IF t.st = "typeobj" THEN Raise(op, "AttributeError", <<>>)
    ELSE IF t.ty # e.ty THEN Raise(op, "CodegenError", <<t.ty, e.ty>>)
    ELSE Ok(op, t.ty, Select(cval, t, e), "instr")

\* aki: _codegen_IfExpr after both clauses
Aki_IfResult(isWhen, hasElse, cty, cval, t, e) ==
    LET op == IF isWhen THEN "when" ELSE "if" IN
    IF isWhen THEN Ok(op, cty, cval, "instr")
    ELSE IF t.st # "ok" THEN Raise(op, "AttributeError", <<>>)
    ELSE IF ~hasElse THEN Raise(op, "UnboundLocalError", <<>>)
    ELSE IF e.st # "ok" THEN Raise(op, "AttributeError", <<>>)
    ELSE IF t.ty # e.ty THEN Raise(op, "AkiTypeErr", <<>>)
    ELSE Ok(op, t.ty, Select(cval, t, e), "instr")

\* core: _codegen_If from the end of the last branch
Core_LeaveIf ==
    LET f  == Top(open)
        op == IF f.isWhen THEN "when" ELSE "if"
        t  == IF f.hasElse THEN f.thenres ELSE last
        e  == IF f.hasElse THEN last ELSE NoRes
    IN IF f.hasElse /\ last.st # "ok"
       THEN Abort(Raise(op, "CodegenError", <<>>)) /\ UNCHANGED closed
       ELSE IF Truthy(last) /\ BranchAsserts
       THEN Abort(Raise(op, "AssertionError", <<>>)) /\ UNCHANGED closed
       ELSE LET r == Core_IfResult(f.isWhen, f.cty, f.cval, t, e) IN
            IF Raised(r) THEN Abort(r) /\ closed' = FALSE
            ELSE /\ last' = r
                 /\ open' = Pop(open)
                 /\ closed' = FALSE
                 /\ UNCHANGED mode

\* aki: _codegen_IfExpr from the end of the last clause
Aki_LeaveIf ==
    LET f == Top(open)
        t == IF f.hasElse THEN f.thenres ELSE last
        e == IF f.hasElse THEN last ELSE NoRes
        r == Aki_IfResult(f.isWhen, f.hasElse, f.cty, f.cval, t, e)
    IN IF Raised(r) THEN Abort(r) /\ closed' = FALSE
       ELSE /\ last' = r
            /\ open' = Pop(open)
            /\ closed' = FALSE
            /\ UNCHANGED mode

LeaveIf ==
    /\ mode = "body"
    /\ engine \in FlowEngines
    /\ open # <<>>
    /\ Top(open).kind = "if"
    /\ Top(open).phase = "else" \/ ~Top(open).hasElse
    /\ IF engine = "aki" THEN Aki_LeaveIf ELSE Core_LeaveIf
    /\ UNCHANGED <<engine, breakpoints, nblk, nameVars, callVars, fn,
                   retVars, unsafe_set>>

(***************************************************************************)
(* Names: declaration and lookup.                                          *)
(***************************************************************************)

\* a lookup that consults the module globals before the symbol table
Aki_name_where_globals_first(st, gl, ps, n) ==
    IF gl[n] # None THEN "globals"
    ELSE IF st[n] # None THEN "symtab"
    ELSE IF \E i \in 1..Len(ps) : ps[i][n] # None THEN "peer"
    ELSE "nowhere"

\* aki: AkiCodeGen._name: the table the name is found in, searched in order
\* "symtab", "globals", then the peers 1..Len(peers); 0 when none binds it
Aki_name_where(st, gl, ps, n) ==
    IF st[n] # None THEN "symtab"
    ELSE IF gl[n] # None THEN "globals"
    ELSE IF \E i \in 1..Len(ps) : ps[i][n] # None THEN "peer"
    ELSE "nowhere"

\* aki: the first peer, in registration order, whose globals bind the name
Aki_name_peer(ps, n) ==
    CHOOSE i \in 1..Len(ps) :
        /\ ps[i][n] # None
        /\ \A j \in 1..(i - 1) : ps[j][n] = None

\* aki: AkiCodeGen._name: the binding returned
Aki_name(st, gl, ps, n) ==
    LET w == Aki_name_where(st, gl, ps, n) IN
    IF w = "symtab" THEN st[n]
    ELSE IF w = "globals" THEN gl[n]
    ELSE IF w = "peer" THEN ps[Aki_name_peer(ps, n)][n]
    ELSE None

\* core: LLVMCodeGenerator._varaddr: the binding returned, None for a miss
Core_varaddr(st, gl, n) ==
    IF st[n] # None THEN st[n]
    ELSE IF gl[n] # None THEN gl[n]
    ELSE None

\* a name reference is lowered (aki: _codegen_Name; core: _codegen_Variable
\* with report = True)
codegen_Name(n) ==
    /\ mode = "body"
    /\ engine \in FlowEngines
    /\ IF engine = "aki"
       THEN LET b == Aki_name(symtab, globals, peers, n) IN
            IF b = None
            THEN Abort(Named(Raise("name", "AkiNameErr", <<>>), n)) /\ UNCHANGED globals
            ELSE /\ Return(Named(Found("name", b), n))
                 \* a peer's function is linked into this module
                 /\ globals' =
                      IF Aki_name_where(symtab, globals, peers, n) = "peer"
                      THEN [globals EXCEPT ![n] = Binding(b.slot, b.ty, "link")]
                      ELSE globals
       ELSE LET b == Core_varaddr(symtab, globals, n) IN
            /\ Return(Named(IF b = None THEN Raise("name", "CodegenError", <<>>)
                            ELSE Found("name", b), n))
            /\ UNCHANGED globals
    /\ UNCHANGED <<engine, breakpoints, closed, nblk, symtab, peers, nslot,
                   callVars, fn,
                   retVars, unsafe_set>>

\* aki: the two items of metadata attached to a value handle
HandleAttrs == {"akitype", "akinode"}

\* a handle together with the metadata attributes set on it
WithAttrs(r, attrs) == r @@ [attrs |-> attrs]

\* aki: _codegen_AccessorExpr(node, load) for the binding b of the indexed
\* name. indexable: the type descriptor of b has an op_index; meta: the
\* attributes op_index set on the element pointer; ety: the element type
Aki_codegen_AccessorExpr(b, indexable, meta, ety, load) ==
    IF b = None THEN Raise("index", "AkiNameErr", <<>>)
    ELSE IF ~indexable THEN Raise("index", "AkiTypeErr", <<>>)
    ELSE IF ~load THEN WithAttrs(Ok("index", ety, -1, "instr"), meta)
    ELSE IF "akitype" \notin meta THEN Raise("index", "AttributeError", <<>>)
    \* builder.load makes a new handle; only akitype is copied onto it
    ELSE WithAttrs(Ok("index", ety, -1, "instr"), {"akitype"})

codegen_AccessorExpr(n, indexable, meta, ety, load) ==
    /\ mode = "body"
    /\ engine = "aki"
    /\ Return(Named(Aki_codegen_AccessorExpr(
                       Aki_name(symtab, globals, peers, n),
                       indexable, meta, ety, load), n))
    /\ UNCHANGED <<engine, breakpoints, closed, nblk, nameVars, callVars, fn,
                   retVars, unsafe_set>>

\* aki: _check_var_name(node, name): the name is free in the function
Aki_check_var_name(st, gl, n) == st[n] = None

\* core and vars: the two checks of _codegen_Var: free in func_symtab and
\* in module.globals
Core_check_var_name(st, gl, n) == st[n] = None /\ gl[n] = None

\* the exception class raised for a name that is already bound
\* vars: the message reads the undefined variable `name`
NameErrOf(e) == IF e = "aki" THEN "AkiNameErr"
                ELSE IF e = "core" THEN "CodegenError"
                ELSE "NameError"

\* _codegen_VarDef / the typing of a declaration: declared type dty
\* ("-" when omitted), initializer of type ity ("-" when omitted)
VarDefType(dty, ity) ==
    IF ity = "-" THEN (IF dty = "-" THEN DEFAULT_TYPE ELSE dty) ELSE ity
VarDefFails(dty, ity) == ity # "-" /\ dty # "-" /\ dty # ity

\* aki: _codegen_VarList for one variable
Aki_codegen_Var(n, dty, ity) ==
    IF ~Aki_check_var_name(symtab, globals, n)
    THEN Abort(Named(Raise("var", NameErrOf("aki"), <<>>), n))
         /\ UNCHANGED <<symtab, nslot>>
    ELSE IF ity # "-"
    THEN \* value = LLVMNode(_.val, _.vartype, value)
         Abort(Named(Raise("var", "AttributeError", <<>>), n))
         /\ UNCHANGED <<symtab, nslot>>
    ELSE /\ nslot' = nslot + 1
         /\ symtab' = [symtab EXCEPT
                         ![n] = Binding(nslot + 1, VarDefType(dty, ity), "local")]
         /\ Return(Named(Nothing("var", 0), n))

\* core: LLVMCodeGenerator._codegen_Var for one variable
Core_codegen_Var(n, dty, ity) ==
    IF VarDefFails(dty, ity)
    THEN Abort(Named(Raise("var", "CodegenError", <<dty, ity>>), n))
         /\ UNCHANGED <<symtab, nslot>>
    ELSE IF ~Core_check_var_name(symtab, globals, n)
    THEN Abort(Named(Raise("var", NameErrOf("core"), <<>>), n))
         /\ UNCHANGED <<symtab, nslot>>
    ELSE /\ nslot' = nslot + 1
         /\ symtab' = [symtab EXCEPT
                         ![n] = Binding(nslot + 1, VarDefType(dty, ity), "local")]
         /\ Return(Named(Nothing("var", 0), n))

\* vars: Vars._codegen_Var for one variable
Vars_codegen_Var(n, dty, ity) ==
    IF ~Core_check_var_name(symtab, globals, n)
    THEN Abort(Named(Raise("var", NameErrOf("vars"), <<>>), n))
         /\ UNCHANGED <<symtab, nslot>>
    ELSE IF VarDefFails(dty, ity)
    THEN Abort(Named(Raise("var", "CodegenError", <<dty, ity>>), n))
         /\ UNCHANGED <<symtab, nslot>>
    ELSE /\ nslot' = nslot + 1
         /\ symtab' = [symtab EXCEPT
                         ![n] = Binding(nslot + 1, VarDefType(dty, ity), "local")]
         /\ Return(Named(Nothing("var", 0), n))

\* a local variable declaration
codegen_Var(n, dty, ity) ==
    /\ mode = "body"
    /\ nslot < MaxSlots
    /\ IF engine = "aki" THEN Aki_codegen_Var(n, dty, ity)
       ELSE IF engine = "core" THEN Core_codegen_Var(n, dty, ity)
       ELSE Vars_codegen_Var(n, dty, ity)
    /\ UNCHANGED <<engine, breakpoints, closed, nblk, globals, peers,
                   callVars, fn,
                   retVars, unsafe_set>>

\* core: _codegen_Uni; vars: _codegen_Global (llvmlite refuses a duplicate)
codegen_Uni(n, ty) ==
    /\ mode \in {"top", "failed"}
    /\ engine \in {"core", "vars"}
    /\ nslot < MaxSlots
    /\ IF globals[n] # None
       THEN /\ Abort(Raise("uni", IF engine = "core" THEN "CodegenError"
                                  ELSE "DuplicatedNameError", <<>>))
            /\ UNCHANGED <<globals, nslot>>
       ELSE /\ globals' = [globals EXCEPT ![n] = Binding(nslot + 1, ty, "global")]
            /\ nslot' = nslot + 1
            /\ last' = Nothing("uni", 0)
            /\ mode' = "top"
            /\ open' = <<>>
    /\ UNCHANGED <<engine, breakpoints, closed, nblk, symtab, peers,
                   callVars, fn,
                   retVars, unsafe_set>>

\* aki: Repl.anonymous_function appends a peer engine to other_modules;
\* the peer's module binds the names in bound to functions
RegisterPeer(bound) ==
    /\ mode \in {"top", "failed"}
    /\ engine = "aki"
    /\ Len(peers) < MaxPeers
    /\ nslot + Cardinality(bound) <= MaxSlots
    /\ LET ord == CHOOSE f \in [bound -> 1..Cardinality(bound)] :
                     \A a, b \in bound : a # b => f[a] # f[b]
       IN peers' = Append(peers,
                     [n \in GNames |->
                        IF n \in bound
                        THEN Binding(nslot + ord[n], "i32", "func")
                        ELSE None])
    /\ nslot' = nslot + Cardinality(bound)
    /\ UNCHANGED <<engine, mode, flowVars, last, symtab, globals, callVars, fn,
                   retVars, unsafe_set>>

(***************************************************************************)
(* Functions: prototype, body, epilogue.                                   *)
(***************************************************************************)

Param(ty, dflt) == [ty |-> ty, dflt |-> dflt]
ParamName(i)    == IF i = 1 THEN "x" ELSE "y"
ParamSlot(i)    == 0 - i
FuncSlot(i)     == 0 - (10 + i)
TypesOf(ps)     == [i \in 1..Len(ps) |-> ps[i].ty]

\* the index of the first parameter that has a default, Len + 1 if none
FirstDefault(ps) ==
    IF \E i \in 1..Len(ps) : ps[i].dflt
    THEN CHOOSE i \in 1..Len(ps) :
            ps[i].dflt /\ \A j \in 1..(i - 1) : ~ps[j].dflt
    ELSE Len(ps) + 1

\* core: _codegen_Prototype: `vartypes`, the parameters before the first
\* default
Core_vartypes(ps) == TypesOf(SubSeq(ps, 1, FirstDefault(ps) - 1))

\* core: _codegen_Prototype: `vartypes_with_defaults`, every parameter from
\* the first default on
Core_vartypes_with_defaults(ps) == TypesOf(SubSeq(ps, FirstDefault(ps), Len(ps)))

\* core.mangling: the name a function is registered under in module.globals
MangledName(name, req, opt) == <<name, req, opt>>

\* core.mangling.mangle_types: the key built from a call's argument types
mangle_types(name, tys) == <<name, tys>>

\* an ir.Function with its prototype
Func(p, req, opt) ==
    [name |-> p.name, params |-> p.params, req |-> req, opt |-> opt,
     rty |-> p.rty, vararg |-> p.vararg]

\* aki: _codegen_Prototype refuses a parameter without default after one
\* with a default
Aki_ProtoOrdered(ps) ==
    \A i, j \in 1..Len(ps) : (i < j /\ ps[i].dflt) => ps[j].dflt

\* the arguments of the function enter its symbol table
ArgTable(ps) ==
    [n \in GNames |->
       IF \E i \in 1..Len(ps) : ParamName(i) = n
       THEN LET i == CHOOSE i \in 1..Len(ps) : ParamName(i) = n
            IN Binding(ParamSlot(i), ps[i].ty, "arg")
       ELSE None]

\* aki: _codegen_Prototype: the name collision check and the order check;
\* "ok" or the class of the error raised
Aki_ProtoCheck(p) ==
    IF p.name \in GNames /\ globals[p.name] # None THEN "AkiNameErr"
    ELSE IF ~Aki_ProtoOrdered(p.params) THEN "AkiSyntaxErr"
    ELSE "ok"

\* aki: _codegen_Prototype: ir.Function(self.module, f_type, name=node.name)
Aki_RegisterFuncs(p) ==
    IF p.name \in GNames
    THEN Append(funcs, Func(p, TypesOf(p.params), <<>>))
    ELSE funcs
Aki_RegisterGlobals(p) ==
    IF p.name \in GNames
    THEN [globals EXCEPT ![p.name] =
            Binding(FuncSlot(Len(funcs) + 1), "func", "func")]
    ELSE globals

\* aki: _codegen_Prototype: a prototype built without a return type node
\* (return_type None, as Repl.anonymous_function builds it) gets the node
\* VarTypeName(default type id); a node without a name stays as it is
Aki_PrototypeReturnType(rty) == IF rty = "none" THEN DEFAULT_TYPE ELSE rty

\* aki: _codegen_Function up to the body: init_func_handlers, the prototype
\* (_codegen_Prototype), the refusal of varargs, the argument slots
Aki_BeginFunction(p) ==
    /\ breakpoints' = <<>>
    /\ IF Aki_ProtoCheck(p) # "ok"
       THEN /\ Abort(Raise("function", Aki_ProtoCheck(p), <<>>))
            /\ symtab' = EmptyTable
            /\ UNCHANGED <<globals, funcs, fn, closed>>
       ELSE IF p.vararg
       THEN \* the prototype is in the module when the error is raised
            /\ Abort(Raise("function", "AkiSyntaxErr", <<>>))
            /\ funcs' = Aki_RegisterFuncs(p)
            /\ globals' = Aki_RegisterGlobals(p)
            /\ symtab' = EmptyTable
            /\ UNCHANGED <<fn, closed>>
       ELSE /\ funcs' = Aki_RegisterFuncs(p)
            /\ globals' = Aki_RegisterGlobals(p)
            /\ symtab' = ArgTable(p.params)
            /\ fn' = p
            /\ closed' = FALSE
            /\ mode' = "body"
            /\ open' = <<>>
            /\ last' = NoRes
    /\ UNCHANGED opt_args_funcs

\* aki: _codegen_External: _codegen_Function on an External node returns
\* after the prototype; the function has no body
codegen_External(p) ==
    /\ mode \in {"top", "failed"}
    /\ engine = "aki"
    /\ Len(funcs) < MaxFuncs
    /\ breakpoints' = <<>>
    /\ symtab' = EmptyTable
    /\ IF Aki_ProtoCheck(p) # "ok"
       THEN /\ Abort(Raise("external", Aki_ProtoCheck(p), <<>>))
            /\ UNCHANGED <<globals, funcs>>
       ELSE /\ funcs' = Aki_RegisterFuncs(p)
            /\ globals' = Aki_RegisterGlobals(p)
            /\ last' = Nothing("external", 0)
            /\ mode' = "top"
            /\ open' = <<>>
    /\ UNCHANGED <<engine, closed, nblk, peers, nslot, opt_args_funcs, fn,
                   retVars, unsafe_set>>

\* core: the function of that mangled name already in module.globals
Core_Existing(fs, p) ==
    {i \in 1..Len(fs) :
        MangledName(fs[i].name, fs[i].req, fs[i].opt) =
        MangledName(p.name, Core_vartypes(p.params),
                    Core_vartypes_with_defaults(p.params))}

\* core: self.opt_args_funcs after _codegen_Prototype registered function i
Core_RegisterOpt(tbl, p, i) ==
    IF Core_vartypes_with_defaults(p.params) = <<>> THEN tbl
    ELSE LET k == mangle_types(p.name, Core_vartypes(p.params)) IN
         [q \in DOMAIN tbl \cup {k} |-> IF q = k THEN i ELSE tbl[q]]

\* core: _codegen_Function up to the body: the symbol table is reset, the
\* prototype registered (_codegen_Prototype), the arguments bound
Core_BeginFunction(p) ==
    LET req   == Core_vartypes(p.params)
        opt   == Core_vartypes_with_defaults(p.params)
        plain == p.name \in GNames /\ req = <<>> /\ opt = <<>>
    IN
    /\ UNCHANGED breakpoints
    /\ IF p.name # "anon" /\
          (Core_Existing(funcs, p) # {} \/ (plain /\ globals[p.name] # None))
       THEN /\ Abort(Raise("function", "CodegenError", <<>>))
            /\ symtab' = EmptyTable
            /\ UNCHANGED <<globals, funcs, opt_args_funcs, fn, closed>>
       ELSE /\ funcs' = IF p.name # "anon" THEN Append(funcs, Func(p, req, opt))
                        ELSE funcs
            /\ globals' = IF plain
                          THEN [globals EXCEPT ![p.name] =
                                  Binding(FuncSlot(Len(funcs) + 1), "func", "func")]
                          ELSE globals
            /\ opt_args_funcs' =
                  IF p.name # "anon"
                  THEN Core_RegisterOpt(opt_args_funcs, p, Len(funcs) + 1)
                  ELSE opt_args_funcs
            /\ symtab' = ArgTable(p.params)
            /\ fn' = p
            /\ closed' = FALSE
            /\ mode' = "body"
            /\ open' = <<>>
            /\ last' = NoRes

\* a function definition is lowered: everything before its body
BeginFunction(p) ==
    /\ mode \in {"top", "failed"}
    /\ p.name = "anon" \/ Len(funcs) < MaxFuncs
    /\ p.vararg => engine = "aki"   \* only the aki grammar has starred arguments
    /\ IF engine = "aki" THEN Aki_BeginFunction(p) ELSE Core_BeginFunction(p)
    /\ IF mode' = "body"
       THEN rets' = 0 /\ func_returncalled' = FALSE
       ELSE UNCHANGED retVars
    /\ UNCHANGED <<engine, nblk, peers, nslot, unsafe_set>>

\* the exit block of the function being lowered (core: func_returnblock)
ExitBlock == 0 - 1

\* aki: the type of the return slot once the body is lowered: inferred
\* from the body when the prototype's return type node has no name
Aki_ReturnType(rty, bodyty) ==
    IF Aki_PrototypeReturnType(rty) = "unnamed" THEN bodyty
    ELSE Aki_PrototypeReturnType(rty)

\* aki: _codegen_Function after the body
Aki_EndFunction ==
    IF last.cls # "instr"
    THEN Abort(Raise("function", "AssertionError", <<>>))
         /\ UNCHANGED <<symtab, breakpoints, fn, closed>>
    ELSE IF last.ty # Aki_ReturnType(fn.rty, last.ty)
    THEN Abort(Raise("function", "AkiTypeErr",
                     <<last.ty, Aki_ReturnType(fn.rty, last.ty)>>))
         /\ UNCHANGED <<symtab, breakpoints, fn, closed>>
    ELSE IF BranchAsserts
    THEN Abort(Raise("function", "AssertionError", <<>>))
         /\ UNCHANGED <<symtab, breakpoints, fn, closed>>
    ELSE /\ last' = [Nothing("function", ExitBlock) EXCEPT
                       !.ty = Aki_ReturnType(fn.rty, last.ty)]
         /\ symtab' = EmptyTable
         /\ breakpoints' = <<>>
         /\ fn' = NoProto
         /\ closed' = FALSE
         /\ mode' = "top"
         /\ UNCHANGED open

\* core: the declared return type of the prototype
Core_DeclaredType(rty) ==
    IF rty \in {"unnamed", "none"} THEN DEFAULT_TYPE ELSE rty

\* core: _codegen_Function: the body gave no value and a return was lowered
Core_EarlyReturn == last.st = "none" /\ func_returncalled

\* core: _codegen_Function after the body
Core_EndFunction ==
    /\ UNCHANGED <<symtab, breakpoints>>
    /\ IF Core_EarlyReturn
       THEN \* no store, no branch: only the exit block gets its ret
            /\ last' = [Nothing("function", 0) EXCEPT
                          !.ty = Core_DeclaredType(fn.rty)]
            /\ fn' = NoProto
            /\ closed' = FALSE
            /\ mode' = "top"
            /\ UNCHANGED open
       ELSE IF last.st # "ok"
       THEN Abort(Raise("function", "CodegenError", <<>>))
            /\ UNCHANGED <<fn, closed>>
       ELSE IF Core_DeclaredType(fn.rty) # last.ty /\ fn.name # "anon"
       THEN Abort(Raise("function", "CodegenError",
                        <<Core_DeclaredType(fn.rty), last.ty>>))
            /\ UNCHANGED <<fn, closed>>
       ELSE IF BranchAsserts
       THEN Abort(Raise("function", "AssertionError", <<>>))
            /\ UNCHANGED <<fn, closed>>
       ELSE /\ last' = [Nothing("function", ExitBlock) EXCEPT !.ty = last.ty]
            /\ fn' = NoProto
            /\ closed' = FALSE
            /\ mode' = "top"
            /\ UNCHANGED open

\* a function definition is lowered: everything after its body
EndFunction ==
    /\ mode = "body"
    /\ open = <<>>
    /\ IF engine = "aki" THEN Aki_EndFunction ELSE Core_EndFunction
    /\ IF mode' = "top"
       THEN rets' = rets + 1 /\ func_returncalled' = FALSE
       ELSE UNCHANGED retVars
    /\ UNCHANGED <<engine, nblk, globals, peers, nslot, callVars, unsafe_set>>

\* core: _codegen_Return with an operand that lowers to the type t,
\* without the branch
Core_ReturnCheck(rty, t) ==
    IF t # Core_DeclaredType(rty)
    THEN Raise("return", "CodegenError", <<Core_DeclaredType(rty), t>>)
    ELSE Nothing("return", ExitBlock)

\* core: LLVMCodeGenerator._codegen_Return
codegen_Return(t) ==
    /\ mode = "body"
    /\ engine = "core"
    /\ LET r == Core_ReturnCheck(fn.rty, t) IN
       IF Raised(r)
       THEN Abort(r) /\ UNCHANGED <<closed, func_returncalled>>
       ELSE IF BranchAsserts
       THEN Abort(Raise("return", "AssertionError", <<>>))
            /\ UNCHANGED <<closed, func_returncalled>>
       ELSE /\ last' = r
            /\ closed' = TRUE
            /\ func_returncalled' = TRUE
            /\ UNCHANGED <<mode, open>>
    /\ UNCHANGED <<engine, breakpoints, nblk, nameVars, callVars, fn, rets,
                   unsafe_set>>

(***************************************************************************)
(* Calls (core): overloads, optional arguments.                            *)
(***************************************************************************)

\* core: _codegen_Call: possible_opt_args_funcs, one entry for each prefix of
\* the argument list whose key is in self.opt_args_funcs, shortest first
Core_possible_opt_args_funcs(tbl, name, argtys) ==
    LET idx  == [k \in 1..Len(argtys) |-> k]
        hit(k) == mangle_types(name, SubSeq(argtys, 1, k)) \in DOMAIN tbl
        hits == SelectSeq(idx, hit)
    IN [j \in 1..Len(hits) |->
          tbl[mangle_types(name, SubSeq(argtys, 1, hits[j]))]]

\* core: the argument types of candidate f agree with the call's, pairwise
\* over the shorter of the two lists (zip)
Core_ZipMatch(f, argtys) ==
    \A i \in 1..Len(argtys) :
        i <= Len(f.params) => f.params[i].ty = argtys[i]

\* core: _codegen_Call: the value of `match` after the loop over the first
\* n candidates
RECURSIVE Core_match(_, _, _, _)
Core_match(fs, cands, argtys, n) ==
    IF n = 0 THEN FALSE
    ELSE LET f1 == fs[cands[n]] IN
         IF Len(argtys) > Len(f1.params)
         THEN Core_match(fs, cands, argtys, n - 1)
         ELSE Core_ZipMatch(f1, argtys)

\* core: _codegen_Call: the function an optional-argument call resolves to:
\* `callee_func = f1`, the loop variable after the loop
Core_OptCallee(cands) == cands[Len(cands)]

\* core: module.globals.get(mangled_name): the function registered under
\* the mangled name of exactly these argument types, 0 when there is none
Core_ExactCallee(fs, name, argtys) ==
    LET S == {i \in 1..Len(fs) :
                MangledName(fs[i].name, fs[i].req, fs[i].opt) =
                MangledName(name, argtys, <<>>)}
        P == {i \in 1..Len(fs) :
                MangledName(fs[i].name, fs[i].req, fs[i].opt) =
                MangledName(name, <<>>, <<>>)}
    IN IF S # {} THEN CHOOSE i \in S : TRUE
       \* `if not callee_func: callee_func = self.module.globals.get(node.name)`
       ELSE IF P # {} THEN CHOOSE i \in P : TRUE
       ELSE 0

\* core: the arguments passed: the call's own, then `default_value` of each
\* further parameter of the callee
Core_CallArgs(f, argtys) ==
    [i \in 1..(IF Len(f.params) > Len(argtys) THEN Len(f.params)
               ELSE Len(argtys)) |->
       IF i <= Len(argtys) THEN argtys[i] ELSE "default"]

\* core: a parameter the call must fill has no default_value attribute
Core_MissingDefault(f, argtys) ==
    \E i \in 1..Len(f.params) : i > Len(argtys) /\ ~f.params[i].dflt

\* core: the length and type checks on the resolved callee, then the call
Core_CheckedCall(fs, c, argtys, args) ==
    IF c = 0 THEN Raise("call", "CodegenError", argtys)
    ELSE IF Len(fs[c].params) # Len(args)
    THEN Raise("call", "CodegenError", <<>>)
    ELSE IF ~Core_ZipMatch(fs[c], argtys)
    THEN Raise("call", "CodegenError", <<>>)
    ELSE [Ok("call", Core_DeclaredType(fs[c].rty), -1, "instr") EXCEPT
            !.callee = c, !.args = args]

\* core: LLVMCodeGenerator._codegen_Call for a call name(args) whose
\* arguments lower to the types argtys
Core_codegen_Call(fs, tbl, name, argtys) ==
    LET cands == Core_possible_opt_args_funcs(tbl, name, argtys) IN
    IF cands = <<>>
    THEN Core_CheckedCall(fs, Core_ExactCallee(fs, name, argtys),
                          argtys, argtys)
    ELSE IF ~Core_match(fs, cands, argtys, Len(cands))
    THEN Raise("call", "ParseError", <<>>)
    ELSE LET c == Core_OptCallee(cands) IN
         IF Core_MissingDefault(fs[c], argtys)
         THEN Raise("call", "AttributeError", <<>>)
         ELSE Core_CheckedCall(fs, c, argtys, Core_CallArgs(fs[c], argtys))

\* aki: the index into funcs of the function a binding stands for
Aki_FuncOf(b) == 0 - b.slot - 10

\* aki: AkiCodeGen._codegen_Call on the function f = fs[c]: arity, defaults,
\* varargs and the type check of the supplied arguments
Aki_CallFunc(fs, c, argtys) ==
    LET f == fs[c]
        decl == TypesOf(f.params)
        bad == {i \in 1..Len(argtys) :
                   i <= Len(f.params) /\ argtys[i] # f.params[i].ty}
    IN IF Len(argtys) > Len(f.params) /\ ~f.vararg
       THEN Raise("call", "AkiSyntaxErr", decl)
       ELSE IF bad # {}
       THEN LET i == CHOOSE i \in bad : \A j \in bad : i <= j
            IN Raise("call", "AkiTypeErr", <<argtys[i], f.params[i].ty>>)
       ELSE IF \E i \in 1..Len(f.params) : i > Len(argtys) /\ ~f.params[i].dflt
       THEN Raise("call", "AkiSyntaxErr", decl)
       ELSE [Ok("call", IF f.rty = "unnamed" THEN DEFAULT_TYPE ELSE f.rty,
                -1, "instr") EXCEPT
               !.callee = c, !.args = Core_CallArgs(f, argtys)]

\* aki: AkiCodeGen._codegen_Call for a call name(args) whose arguments
\* lower to the types argtys; the name is looked up with _name
Aki_codegen_Call(st, gl, ps, fs, name, argtys) ==
    LET b == Aki_name(st, gl, ps, name) IN
    IF b = None THEN Raise("call", "AkiNameErr", <<>>)
    ELSE Aki_CallFunc(fs, Aki_FuncOf(b), argtys)

\* a call expression is lowered (aki: the name is unbound or bound to a
\* function of this module)
codegen_Call(name, argtys) ==
    /\ mode = "body"
    /\ engine \in FlowEngines
    /\ engine = "aki" =>
          LET b == Aki_name(symtab, globals, peers, name)
          IN b = None \/ b.own = "func"
    /\ Return(IF engine = "aki"
              THEN Aki_codegen_Call(symtab, globals, peers, funcs, name, argtys)
              ELSE Core_codegen_Call(funcs, opt_args_funcs, name, argtys))
    /\ UNCHANGED <<engine, breakpoints, closed, nblk, nameVars, callVars, fn,
                   retVars, unsafe_set>>

(***************************************************************************)
(* Unary `not`.                                                            *)
(***************************************************************************)

\* core: _codegen_Unary for `not` on an operand of type t and value v: the
\* node is rewritten to `if operand == 0 then 1 else 0` over constants of the
\* operand's type and handed to _codegen_If
Core_codegen_Not(t, v) ==
    LET cmp == Core_codegen_Binary("==", t, t, FALSE)
        r   == Core_IfResult(FALSE, cmp.ty, IF v = 0 THEN 1 ELSE 0,
                             Ok("const", t, 1, "const"),
                             Ok("const", t, 0, "const"))
    IN IF Raised(cmp) THEN cmp ELSE [r EXCEPT !.op = "not"]

\* aki: _codegen_UnOp_Not: an operand that is not a bool goes through
\* _scalar_as_bool; the result is the xor of the operand with 1, typed bool
Aki_codegen_Not(t, v) ==
    IF t # "bool" THEN scalar_as_bool("not")
    ELSE Ok("not", "bool", 1 - v, "instr")

\* `not x` where x lowers to a value of type t that is v at run time
codegen_Not(t, v) ==
    /\ mode = "body"
    /\ engine \in FlowEngines
    /\ t = "bool" => v \in {0, 1}
    /\ IF engine = "aki"
       THEN Return(Aki_codegen_Not(t, v)) /\ UNCHANGED closed
       ELSE IF BranchAsserts
       THEN Abort(Raise("not", "AssertionError", <<>>)) /\ UNCHANGED closed
       ELSE /\ last' = Core_codegen_Not(t, v)
            /\ open' = LeaveBodyBlock(open)
            /\ closed' = FALSE
            /\ UNCHANGED mode
    /\ UNCHANGED <<engine, breakpoints, nblk, nameVars, callVars, fn,
                   retVars, unsafe_set>>

(***************************************************************************)
(* Scopes: three-condition loops, `with` / var-in blocks.                  *)
(***************************************************************************)

\* an open handler that scopes the variable name: var is its binding,
\* oldval what the handler saved to restore, init / stop the run-time values
\* of the counter's initializer and of the stop expression at the first
\* test, before the symbol table when the handler was entered
ScopeFrame(kind, name, var, oldval, init, stop, before) ==
    [kind |-> kind, name |-> name, var |-> var, oldval |-> oldval,
     init |-> init, stop |-> stop, before |-> before]

\* the binding a declaration made by this step gives the name n
NewLocal(dty, ity) == Binding(nslot + 1, VarDefType(dty, ity), "local")

\* a scope end that leaves the table as it is
Core_RestoreBinding_keep(st, n, old) == st

\* core: the end of _codegen_Loop and of _codegen_VarIn: the saved binding is
\* put back, or the name deleted when nothing was saved
Core_RestoreBinding(st, n, old) == [st EXCEPT ![n] = old]

\* aki: _delete_var
Aki_delete_var(st, n) == [st EXCEPT ![n] = None]

\* core: _codegen_Assignment of a value of type ity to the binding b
Core_AssignFails(b, ity) == ity = "-" \/ b.ty # ity

\* core: _codegen_Loop with a start expression, up to the body
Core_EnterLoop3(n, dty, ity, init, stop) ==
    LET b == Core_varaddr(symtab, globals, n) IN
    IF b = None /\ VarDefFails(dty, ity)
    THEN Abort(Named(Raise("loop", "CodegenError", <<dty, ity>>), n))
         /\ UNCHANGED <<symtab, nslot, closed>>
    ELSE IF b # None /\ Core_AssignFails(b, ity)
    THEN Abort(Named(Raise("loop", IF ity = "-" THEN "AttributeError"
                                   ELSE "CodegenError", <<>>), n))
         /\ UNCHANGED <<symtab, nslot, closed>>
    ELSE LET var_addr == IF b = None THEN NewLocal(dty, ity) ELSE b
             declared == IF b = None
                         THEN [symtab EXCEPT ![n] = var_addr] ELSE symtab
         IN /\ nslot' = IF b = None THEN nslot + 1 ELSE nslot
            /\ IF BranchAsserts
               THEN /\ Abort(Named(Raise("loop", "AssertionError", <<>>), n))
                    /\ symtab' = declared
                    /\ UNCHANGED closed
               ELSE \* oldval is read after the declaration
                    /\ symtab' = [declared EXCEPT ![n] = var_addr]
                    /\ open' = Push(LeaveBodyBlock(open),
                                 ScopeFrame("loop3", n, var_addr, declared[n],
                                            IF ity = "-" THEN -1 ELSE init,
                                            stop, symtab))
                    /\ closed' = FALSE
                    /\ last' = NoRes
                    /\ UNCHANGED mode

\* aki: _codegen_LoopExpr with three conditions whose first is a VarList of
\* one variable, up to the body
Aki_EnterLoop3(n, dty, ity, init, stop) ==
    IF BranchAsserts
    THEN Abort(Named(Raise("loop", "AssertionError", <<>>), n))
         /\ UNCHANGED <<symtab, nslot, closed>>
    ELSE IF ~Aki_check_var_name(symtab, globals, n)
    THEN Abort(Named(Raise("loop", NameErrOf("aki"), <<>>), n))
         /\ UNCHANGED <<symtab, nslot>> /\ closed' = FALSE
    ELSE IF ity # "-"
    THEN Abort(Named(Raise("loop", "AttributeError", <<>>), n))
         /\ UNCHANGED <<symtab, nslot>> /\ closed' = FALSE
    ELSE /\ nslot' = nslot + 1
         /\ symtab' = [symtab EXCEPT ![n] = NewLocal(dty, ity)]
         /\ open' = Push(open,
                      ScopeFrame("loop3", n, NewLocal(dty, ity), None, 0,
                                 stop, symtab))
         /\ closed' = FALSE
         /\ last' = NoRes
         /\ UNCHANGED mode

\* a loop with start, stop and step whose start declares or assigns n
EnterLoop3(n, dty, ity, init, stop) ==
    /\ mode = "body"
    /\ engine \in FlowEngines
    /\ Len(open) < MaxDepth
    /\ nslot < MaxSlots
    /\ IF engine = "aki" THEN Aki_EnterLoop3(n, dty, ity, init, stop)
       ELSE Core_EnterLoop3(n, dty, ity, init, stop)
    /\ UNCHANGED <<engine, breakpoints, nblk, globals, peers, callVars, fn,
                   retVars, unsafe_set>>

\* core: _codegen_Loop with a start expression, after the body: the step,
\* the back edge, the restored binding, the load of the counter
Core_LeaveLoop3 ==
    LET f == Top(open) IN
    IF BranchAsserts
    THEN Abort(Named(Raise("loop", "AssertionError", <<>>), f.name))
         /\ UNCHANGED <<symtab, closed>>
    ELSE /\ symtab' = Core_RestoreBinding(symtab, f.name, f.oldval)
         /\ open' = Pop(open)
         /\ closed' = FALSE
         /\ last' = Named([Found("loop", f.var) EXCEPT
                             !.val = IF f.stop = 0 THEN f.init ELSE -1],
                          f.name)
         /\ UNCHANGED mode

\* aki: _codegen_LoopExpr after the body: the step assignment (of type sty),
\* the back edge, the deletion of the loop's variables; the handler returns
\* what the body returned
Aki_LeaveLoop3(sty) ==
    LET f == Top(open) IN
    IF ~type_check_op(f.var.ty, sty)
    THEN Abort(Named(Raise("loop", "AkiTypeErr", <<f.var.ty, sty>>), f.name))
         /\ UNCHANGED <<symtab, closed>>
    ELSE IF BranchAsserts
    THEN Abort(Named(Raise("loop", "AssertionError", <<>>), f.name))
         /\ UNCHANGED <<symtab, closed>>
    ELSE /\ symtab' = Aki_delete_var(symtab, f.name)
         /\ open' = Pop(open)
         /\ closed' = FALSE
         /\ last' = Named([last EXCEPT !.op = "loop"], f.name)
         /\ UNCHANGED mode

LeaveLoop3(sty) ==
    /\ mode = "body"
    /\ engine \in FlowEngines
    /\ open # <<>>
    /\ Top(open).kind = "loop3"
    /\ IF engine = "aki" THEN Aki_LeaveLoop3(sty) ELSE Core_LeaveLoop3
    /\ UNCHANGED <<engine, breakpoints, nblk, globals, peers, nslot,
                   callVars, fn, retVars, unsafe_set>>

\* core: _codegen_VarIn for one variable, up to the body
Core_EnterVarIn(n, dty, ity) ==
    IF Core_varaddr(symtab, globals, n) # None
    THEN Abort(Named(Raise("with", "CodegenError", <<>>), n))
         /\ UNCHANGED <<symtab, nslot>>
    ELSE IF VarDefFails(dty, ity)
    THEN Abort(Named(Raise("with", "CodegenError", <<dty, ity>>), n))
         /\ UNCHANGED <<symtab, nslot>>
    ELSE /\ nslot' = nslot + 1
         /\ symtab' = [symtab EXCEPT ![n] = NewLocal(dty, ity)]
         /\ open' = Push(open,
                      ScopeFrame("with", n, NewLocal(dty, ity), symtab[n],
                                 -1, -1, symtab))
         /\ last' = NoRes
         /\ UNCHANGED mode

\* aki: _codegen_WithExpr with a VarList of one variable, up to the body
Aki_EnterWith(n, dty, ity) ==
    IF ~Aki_check_var_name(symtab, globals, n)
    THEN Abort(Named(Raise("with", NameErrOf("aki"), <<>>), n))
         /\ UNCHANGED <<symtab, nslot>>
    ELSE IF ity # "-"
    THEN Abort(Named(Raise("with", "AttributeError", <<>>), n))
         /\ UNCHANGED <<symtab, nslot>>
    ELSE /\ nslot' = nslot + 1
         /\ symtab' = [symtab EXCEPT ![n] = NewLocal(dty, ity)]
         /\ open' = Push(open,
                      ScopeFrame("with", n, NewLocal(dty, ity), None,
                                 -1, -1, symtab))
         /\ last' = NoRes
         /\ UNCHANGED mode

\* a `with` block (aki) / var-in block (core) that declares n
EnterWith(n, dty, ity) ==
    /\ mode = "body"
    /\ engine \in FlowEngines
    /\ Len(open) < MaxDepth
    /\ nslot < MaxSlots
    /\ IF engine = "aki" THEN Aki_EnterWith(n, dty, ity)
       ELSE Core_EnterVarIn(n, dty, ity)
    /\ UNCHANGED <<engine, breakpoints, closed, nblk, globals, peers,
                   callVars, fn, retVars, unsafe_set>>

\* core: _codegen_VarIn after the body, which must have given a value
Core_LeaveVarIn ==
    LET f == Top(open) IN
    IF last.st # "ok"
    THEN Abort(Named(Raise("with", "CodegenError", <<>>), f.name))
         /\ UNCHANGED symtab
    ELSE /\ symtab' = Core_RestoreBinding(symtab, f.name, f.oldval)
         /\ open' = Pop(open)
         /\ last' = Named([last EXCEPT !.op = "with"], f.name)
         /\ UNCHANGED mode

\* aki: _codegen_WithExpr after the body
Aki_LeaveWith ==
    LET f == Top(open) IN
    /\ symtab' = Aki_delete_var(symtab, f.name)
    /\ open' = Pop(open)
    /\ last' = Named([last EXCEPT !.op = "with"], f.name)
    /\ UNCHANGED mode

LeaveWith ==
    /\ mode = "body"
    /\ engine \in FlowEngines
    /\ open # <<>>
    /\ Top(open).kind = "with"
    /\ IF engine = "aki" THEN Aki_LeaveWith ELSE Core_LeaveVarIn
    /\ UNCHANGED <<engine, breakpoints, closed, nblk, globals, peers, nslot,
                   callVars, fn, retVars, unsafe_set>>


(***************************************************************************)
(* While loops (core).                                                     *)
(***************************************************************************)

\* an open While loop; left: the builder has left its first body block
WhileFrame == [kind |-> "while", left |-> FALSE]

\* core: _codegen_While: the block the alloca of the return slot is put in
\* (builder.position_at_start(loopcond_bb) before builder.alloca)
While_AllocaBlock == "loopcond"

\* the run of the emitted code: which execution of the alloca made the
\* storage that the name return_var denotes once loopcond has run `tests`
\* times (an alloca in a block of the loop allocates on every pass)
AllocaInstance(block, tests) == IF block = "loopcond" THEN tests ELSE 1

\* the storage the store of iteration `iters` writes, the storage the load
\* in loopafter reads after `iters` iterations
While_StoreInstance(iters) == AllocaInstance(While_AllocaBlock, iters)
While_LoadInstance(iters) == AllocaInstance(While_AllocaBlock, iters + 1)

\* core: _codegen_While up to the body
Core_EnterWhile ==
    IF BranchAsserts
    THEN Abort(Raise("while", "AssertionError", <<>>)) /\ UNCHANGED closed
    ELSE /\ open' = Push(LeaveBodyBlock(open), WhileFrame)
         /\ closed' = FALSE
         /\ last' = NoRes
         /\ UNCHANGED mode

EnterWhile ==
    /\ mode = "body"
    /\ engine = "core"
    /\ Len(open) < MaxDepth
    /\ Core_EnterWhile
    /\ UNCHANGED <<engine, breakpoints, nblk, nameVars, callVars, fn,
                   retVars, unsafe_set>>

\* core: _codegen_While after the body, for a run of `iters` iterations; u is
\* what a load of storage that was never written gives
Core_LeaveWhile(iters, u) ==
    LET f == Top(open) IN
    IF last.st # "ok"
    THEN Abort(Raise("while", "AttributeError", <<>>))
         /\ UNCHANGED <<closed, nslot>>
    ELSE IF f.left \/ BranchAsserts
    THEN \* the store and the back edge go to the end of loopbody_bb
         Abort(Raise("while", "AssertionError", <<>>))
         /\ UNCHANGED <<closed, nslot>>
    ELSE /\ open' = Pop(open)
         /\ closed' = FALSE
         /\ nslot' = nslot + 1
         /\ last' = [Ok("while", last.ty,
                        IF iters >= 1 /\ While_LoadInstance(iters) =
                                         While_StoreInstance(iters)
                        THEN last.val ELSE u,
                        "instr") EXCEPT !.ref = nslot + 1]
         /\ UNCHANGED mode

LeaveWhile(iters, u) ==
    /\ mode = "body"
    /\ engine = "core"
    /\ open # <<>>
    /\ Top(open).kind = "while"
    /\ nslot < MaxSlots
    /\ Core_LeaveWhile(iters, u)
    /\ UNCHANGED <<engine, breakpoints, nblk, symtab, globals, peers,
                   callVars, fn, retVars, unsafe_set>>

(***************************************************************************)
(* Unsafe blocks (aki) and builtin intrinsics.                             *)
(***************************************************************************)

\* an open `unsafe` block
UnsafeFrame == [kind |-> "unsafe"]

\* aki: _codegen_UnsafeBlock: the flag once the block's body has been
\* lowered.  The handler returns the body's value with
\* `return self._codegen(node.expr_block)`; the assignment
\* `self.unsafe_set = False` is written after that return statement
Aki_UnsafeAfterBlock(flag) == flag

\* aki: _codegen_UnsafeBlock up to the body
EnterUnsafe ==
    /\ mode = "body"
    /\ engine = "aki"
    /\ Len(open) < MaxDepth
    /\ unsafe_set' = TRUE
    /\ open' = Push(open, UnsafeFrame)
    /\ last' = NoRes
    /\ UNCHANGED <<engine, mode, breakpoints, closed, nblk, nameVars,
                   callVars, fn, retVars>>

\* aki: _codegen_UnsafeBlock after the body
LeaveUnsafe ==
    /\ mode = "body"
    /\ engine = "aki"
    /\ open # <<>>
    /\ Top(open).kind = "unsafe"
    /\ open' = Pop(open)
    /\ unsafe_set' = Aki_UnsafeAfterBlock(unsafe_set)
    /\ UNCHANGED <<engine, mode, breakpoints, closed, nblk, last, nameVars,
                   callVars, fn, retVars>>

\* the builtin handlers of each engine
Aki_Builtins == {"cast", "c_size", "c_data", "ref", "deref"}
Core_Builtins == {"cast", "convert", "c_size", "c_ref", "c_deref",
                  "c_obj_ref", "c_obj_deref", "c_obj_alloc", "c_obj_free",
                  "c_array_ptr", "c_addr"}
BuiltinsOf(e) == IF e = "aki" THEN Aki_Builtins ELSE Core_Builtins

\* the number of arguments a builtin is defined for
Arity(name) == IF name \in {"cast", "convert"} THEN 2 ELSE 1

\* aki: _builtins_<name> for a call with nargs arguments; rest is what the
\* handler does with arguments of the right number
Aki_builtin(name, nargs, flag, rest) ==
    IF name = "cast" /\ ~flag THEN Raise(name, "AkiSyntaxErr", <<"unsafe">>)
    ELSE IF nargs # Arity(name) THEN Raise(name, "AkiSyntaxErr", <<"args">>)
    ELSE rest

\* core: _codegen_Builtins_<name> for a call with nargs arguments: the
\* handlers read node.args[0] (and node.args[1]) and nothing else
Core_builtin(name, nargs, rest) ==
    IF nargs < Arity(name) THEN Raise(name, "IndexError", <<>>)
    ELSE rest

\* a call of a builtin is lowered
codegen_Builtin(name, nargs, rest) ==
    /\ mode = "body"
    /\ engine \in FlowEngines
    /\ name \in BuiltinsOf(engine)
    /\ rest.op = name
    /\ Return(IF engine = "aki"
              THEN Aki_builtin(name, nargs, unsafe_set, rest)
              ELSE Core_builtin(name, nargs, rest))
    /\ UNCHANGED <<engine, breakpoints, closed, nblk, nameVars, callVars, fn,
                   retVars, unsafe_set>>

(***************************************************************************)
(* The engine object after construction, and the trees it is given.        *)
(***************************************************************************)

Init ==
    /\ engine \in Engines
    /\ mode = "top"
    /\ open = <<>>
    /\ breakpoints = <<>>
    /\ closed = FALSE
    /\ nblk = 0
    /\ last = NoRes
    /\ symtab = EmptyTable
    /\ globals = EmptyTable
    /\ peers = <<>>
    /\ nslot = 0
    /\ funcs = <<>>
    /\ opt_args_funcs = [k \in {} |-> 0]
    /\ fn = NoProto
    /\ rets = 0
    /\ func_returncalled = FALSE
    /\ unsafe_set = FALSE

\* every parameter list of at most n parameters over the types tys
ParamLists(tys, n) ==
    UNION {[1..k -> {Param(t, d) : t \in tys, d \in BOOLEAN}] : k \in 0..n}

\* every argument type list of at most n arguments over the types tys
ArgLists(tys, n) == UNION {[1..k -> tys] : k \in 0..n}

AnonProtos == {Proto("anon", <<>>, r) : r \in {"i32", "unnamed"}}

\* aki: a prototype whose parameter list ends with a starred argument
StarProto(p) == [p EXCEPT !.vararg = TRUE]
\* aki: the prototype of an External node
ExternProto(p) == [p EXCEPT !.extern = TRUE]
FuncProtos == {Proto("f", ps, "i32") : ps \in ParamLists({"i32", "f64"}, MaxParams)}

\* expressions inside a function body
Expressions ==
    \/ \E t \in Types, v \in Vals : codegen_Constant(t, v)
    \/ \E op \in BinOps, lt, rt \in Types, z \in BOOLEAN :
          codegen_Binary(op, lt, rt, z)
    \/ \E t \in Types, v \in Vals : codegen_Not(t, v)

ControlFlow ==
    \/ codegen_Break
    \/ EnterLoop
    \/ LeaveLoop
    \/ \E w, e \in BOOLEAN, t \in Types, v \in Vals : EnterIf(w, e, t, v)
    \/ IfElse
    \/ LeaveIf

Declarations ==
    \/ \E n \in GNames, dty, ity \in {"-", "i32", "f64"} : codegen_Var(n, dty, ity)
    \/ \E n \in GNames : codegen_Name(n)
    \/ \E n \in Names, t \in {"i32", "f64"} : codegen_Uni(n, t)
    \/ \E b \in SUBSET {"f", "x"} \ {{}} : RegisterPeer(b)

Calls ==
    \E a \in ArgLists({"i32", "f64"}, MaxArgs) : codegen_Call("f", a)

\* operator expressions in anonymous functions, both engines
InitFlow == Init /\ engine \in FlowEngines
NextExpr ==
    \/ \E p \in AnonProtos : BeginFunction(p)
    \/ EndFunction
    \/ Expressions
SpecExpr == InitFlow /\ [][NextExpr]_vars

\* control flow over constants in an anonymous function, both engines
NextFlow ==
    \/ BeginFunction(Proto("anon", <<>>, "i32"))
    \/ EndFunction
    \/ \E t \in {"i32", "f64"}, v \in {1, 2} : codegen_Constant(t, v)
    \/ codegen_Break
    \/ EnterLoop
    \/ LeaveLoop
    \/ \E w, e \in BOOLEAN, t \in {"bool", "i32"}, v \in {0, 1} :
          EnterIf(w, e, t, v)
    \/ IfElse
    \/ LeaveIf
SpecFlow == InitFlow /\ [][NextFlow]_vars

\* declarations and lookups, all three implementations
NextNames ==
    \/ \E p \in AnonProtos \cup {Proto("f", <<>>, "i32")} : BeginFunction(p)
    \/ EndFunction
    \/ Declarations
SpecNames == Init /\ [][NextNames]_vars

\* indexed names
Accessors ==
    \E n \in Names, indexable \in BOOLEAN, meta \in SUBSET HandleAttrs,
       ety \in {"i32"}, load \in BOOLEAN :
        codegen_AccessorExpr(n, indexable, meta, ety, load)
NextAccess ==
    \/ BeginFunction(Proto("anon", <<>>, "i32"))
    \/ EndFunction
    \/ Declarations
    \/ Accessors
SpecAccess == Init /\ [][NextAccess]_vars

\* `if` with an else clause whose branches may return early
NextBranches ==
    \/ BeginFunction(Proto("anon", <<>>, "i32"))
    \/ EndFunction
    \/ \E ty \in {"i32", "f64"} : codegen_Constant(ty, 1)
    \/ codegen_Return("i32")
    \/ \E v \in {0, 1} : EnterIf(FALSE, TRUE, "bool", v)
    \/ IfElse
    \/ LeaveIf
SpecBranches == InitFlow /\ [][NextBranches]_vars

\* builtin calls inside and outside unsafe blocks
Builtins ==
    \E name \in Aki_Builtins \cup Core_Builtins, nargs \in 0..MaxArgs,
       accepted \in BOOLEAN :
        codegen_Builtin(name, nargs,
                        IF accepted THEN Ok(name, "i32", -1, "instr")
                        ELSE Raise(name, IF engine = "aki" THEN "AkiTypeErr"
                                         ELSE "CodegenError", <<>>))
Unsafes ==
    \/ EnterUnsafe
    \/ LeaveUnsafe
NextBuiltins ==
    \/ BeginFunction(Proto("anon", <<>>, "i32"))
    \/ EndFunction
    \/ \E ty \in {"i32", "f64"}, v \in Vals : codegen_Constant(ty, v)
    \/ Builtins
    \/ Unsafes
SpecBuiltins == InitFlow /\ [][NextBuiltins]_vars

\* function bodies with return statements and unspecified return types
ReturnProtos ==
    {Proto(n, <<>>, r) : n \in {"anon", "f"}, r \in {"i32", "unnamed"}}
        \cup {Proto("anon", <<>>, "none")}
NextFuncs ==
    \/ \E p \in ReturnProtos : BeginFunction(p)
    \/ EndFunction
    \/ \E t \in {"i32", "f64"} : codegen_Constant(t, 1)
    \/ \E t \in {"i32", "f64"} : codegen_Binary("+", t, t, FALSE)
    \/ \E t \in {"i32", "f64"} : codegen_Return(t)
    \/ \E v \in {0, 1} : EnterIf(FALSE, FALSE, "bool", v)
    \/ LeaveIf
SpecFuncs == InitFlow /\ [][NextFuncs]_vars

\* three-condition loops and `with` blocks over local declarations
Scopes ==
    \/ \E n \in Names, ity \in {"-", "i32"}, init, stop \in {0, 1} :
          EnterLoop3(n, "-", ity, init, stop)
    \/ \E sty \in {"i32", "f64"} : LeaveLoop3(sty)
    \/ \E n \in GNames, ity \in {"-", "i32"} : EnterWith(n, "-", ity)
    \/ LeaveWith
NextScopes ==
    \/ \E n \in {"anon", "f"} : BeginFunction(Proto(n, <<>>, "i32"))
    \/ EndFunction
    \/ codegen_Uni("x", "i32")
    \/ \E n \in Names, ity \in {"-", "i32"} : codegen_Var(n, "-", ity)
    \/ \E n \in Names : codegen_Name(n)
    \/ \E v \in {1, 2} : codegen_Constant("i32", v)
    \/ Scopes
SpecScopes == InitFlow /\ [][NextScopes]_vars

\* the number of iterations a While loop of the model runs
MaxIters == 2

\* loops of every kind with breaks and returns in their bodies
Whiles ==
    \/ EnterWhile
    \/ \E k \in 0..MaxIters, u \in Vals : LeaveWhile(k, u)
NextLoops ==
    \/ BeginFunction(Proto("anon", <<>>, "i32"))
    \/ EndFunction
    \/ \E v \in {1, 2} : codegen_Constant("i32", v)
    \/ codegen_Binary("+", "i32", "i32", FALSE)
    \/ codegen_Return("i32")
    \/ codegen_Break
    \/ EnterLoop
    \/ LeaveLoop
    \/ \E stop \in {0, 1} : EnterLoop3("x", "-", "i32", 0, stop)
    \/ LeaveLoop3("i32")
    \/ Whiles
SpecLoops == InitFlow /\ [][NextLoops]_vars

\* overloads and calls in the core engine
InitCalls == Init /\ engine \in FlowEngines
NextCalls ==
    \/ \E p \in FuncProtos \cup {StarProto(q) : q \in FuncProtos} :
          BeginFunction(p)
    \/ \E p \in FuncProtos \cup {StarProto(q) : q \in FuncProtos} :
          codegen_External(ExternProto(p))
    \/ EndFunction
    \/ \E v \in Vals : codegen_Constant("i32", v)
    \/ Calls
SpecCalls == InitCalls /\ [][NextCalls]_vars

Next ==
    \/ \E p \in AnonProtos \cup FuncProtos \cup ReturnProtos \cup
               {StarProto(q) : q \in FuncProtos} : BeginFunction(p)
    \/ \E p \in FuncProtos \cup {StarProto(q) : q \in FuncProtos} :
          codegen_External(ExternProto(p))
    \/ EndFunction
    \/ \E t \in Types : codegen_Return(t)
    \/ Expressions
    \/ ControlFlow
    \/ Declarations
    \/ Calls
    \/ Scopes
    \/ Whiles
    \/ Accessors
    \/ Builtins
    \/ Unsafes

Spec == Init /\ [][Next]_vars

(***************************************************************************)
(* Properties.                                                             *)
(***************************************************************************)

\* the error classes the engines use for the kinds of error the
\* specification names
TypeErrOf(e)   == IF e = "aki" THEN "AkiTypeErr" ELSE "CodegenError"
SyntaxErrOf(e) == IF e = "aki" THEN {"AkiSyntaxErr"}
                  ELSE {"CodegenError", "ParseError"}
EngineNameErr(e) == IF e = "aki" THEN "AkiNameErr" ELSE "CodegenError"

C2_ResultType ==
    [][\A op \in BinOps, t \in Types, z \in BOOLEAN :
         (codegen_Binary(op, t, t, z) /\ ~Raised(last')) =>
            last'.ty = (IF op \in CompOps THEN "bool" ELSE t)]_vars

\* C3: an `if` whose branches both yield a value fails with a type error
\* when the branch types differ; when they are equal it lowers and the
\* result has the branches' type and the value of the selected branch.
C3_IfBranches ==
    [][/\ \A t \in Types, v \in Vals :
            (EnterIf(FALSE, TRUE, t, v) /\ ~closed) => ~Raised(last')
       /\ (/\ LeaveIf
           /\ ~Top(open).isWhen
           /\ Top(open).hasElse
           /\ Top(open).thenres.st = "ok"
           /\ last.st = "ok"
           /\ ~closed) =>
             IF Top(open).thenres.ty # last.ty
             THEN last'.st = TypeErrOf(engine)
             ELSE /\ last'.st = "ok"
                  /\ last'.ty = last.ty
                  /\ last'.val = (IF Top(open).cval # 0
                                  THEN Top(open).thenres.val ELSE last.val)]_vars

\* C4: a `when` never fails because its branches differ in type, and it
\* yields the value of its condition, with or without an else branch.
C4_WhenYieldsCondition ==
    [][(/\ LeaveIf
        /\ Top(open).isWhen
        /\ last.st = "ok"
        /\ Top(open).hasElse => Top(open).thenres.st = "ok"
        /\ ~closed) =>
          /\ last'.st = "ok"
          /\ last'.ty = Top(open).cty
          /\ last'.val = Top(open).cval]_vars

\* C5: a `break` lowered while the breakpoint stack is empty fails with the
\* engine's syntax error and emits no branch; in both engines.
C5_BreakOutsideLoop ==
    [][(codegen_Break /\ breakpoints = <<>>) =>
          /\ last'.st \in SyntaxErrOf(engine)
          /\ last'.tgt = 0
          /\ closed' = closed]_vars

\* the exit block of the innermost open zero-condition loop
InLoop(stack) == \E i \in 1..Len(stack) : stack[i].kind = "loop0"
InnermostExit(stack) ==
    LET i == CHOOSE i \in 1..Len(stack) :
                /\ stack[i].kind = "loop0"
                /\ \A j \in (i + 1)..Len(stack) : stack[j].kind # "loop0"
    IN stack[i].exit

\* C6: every `break` lowered inside the body of a zero-condition loop
\* branches to the exit block of the innermost enclosing zero-condition
\* loop: the first, the second and every later one, also in nested loops.
C6_BreakTargetsInnermost ==
    [][(codegen_Break /\ InLoop(open) /\ ~closed) =>
          /\ last'.st = "none"
          /\ last'.tgt = InnermostExit(open)]_vars

\* C7: a local may be declared under the name of an existing module global;
\* the declaration binds the name in the function and leaves the global's
\* binding as it was.
C7_LocalShadowsGlobal ==
    [][\A n \in GNames, dty, ity \in {"-", "i32", "f64"} :
         (/\ codegen_Var(n, dty, ity)
          /\ globals[n] # None
          /\ symtab[n] = None
          /\ ~VarDefFails(dty, ity)) =>
            /\ ~Raised(last')
            /\ symtab'[n] # None
            /\ globals'[n] = globals[n]]_vars

\* the first binding of n in the order symbol table, globals, peers
FirstBinding(n) ==
    IF symtab[n] # None THEN symtab[n]
    ELSE IF globals[n] # None THEN globals[n]
    ELSE IF \E i \in 1..Len(peers) : peers[i][n] # None
    THEN peers[CHOOSE i \in 1..Len(peers) :
                 /\ peers[i][n] # None
                 /\ \A j \in 1..(i - 1) : peers[j][n] = None][n]
    ELSE None

\* C8: a lookup returns the first binding found in the function's symbol
\* table, then the module's globals, then the peers in registration order;
\* when no table binds the name it fails with the engine's name error.
C8_LookupOrder ==
    [][\A n \in GNames :
         codegen_Name(n) =>
            IF FirstBinding(n) = None
            THEN /\ last'.st = EngineNameErr(engine)
                 /\ mode' = "failed"
            ELSE /\ last'.st = "ok"
                 /\ last'.ref = FirstBinding(n).slot
                 /\ last'.ty = FirstBinding(n).ty]_vars

\* a lookup went past two empty tables and a peer to the first of two peers
\* that bind the name
C8_Witness ==
    /\ last.op = "name"
    /\ last.st = "ok"
    /\ Len(peers) = 2
    /\ symtab[last.name] = None
    /\ peers[1][last.name] # None
    /\ peers[2][last.name] # None
    /\ last.ref = peers[1][last.name].slot
    /\ last.ref # peers[2][last.name].slot

\* C9: declaring a local whose name the function's symbol table already
\* binds fails with the engine's own name error and leaves the binding of
\* that name unchanged; in all three implementations.
C9_Redeclaration ==
    [][\A n \in GNames, dty, ity \in {"-", "i32", "f64"} :
         (codegen_Var(n, dty, ity) /\ symtab[n] # None) =>
            /\ last'.st = EngineNameErr(engine)
            /\ symtab'[n] = symtab[n]]_vars

\* the registered functions whose signature is exactly these argument types
ExactSignatures(argtys) ==
    {i \in 1..Len(funcs) :
        /\ funcs[i].name = "f"
        /\ TypesOf(funcs[i].params) = argtys
        /\ \A k \in 1..Len(funcs[i].params) : ~funcs[i].params[k].dflt}

\* C10: a call whose argument types exactly match a registered signature of
\* the same arity resolves to that signature; a function with trailing
\* defaults is considered only when there is no such signature.
C10_ExactMatchFirst ==
    [][\A a \in ArgLists({"i32", "f64"}, MaxArgs) :
         (codegen_Call("f", a) /\ ExactSignatures(a) # {}) =>
            /\ last'.st = "ok"
            /\ last'.callee \in ExactSignatures(a)]_vars

\* the registered functions with defaults that accept these arguments: the
\* declared types match the supplied arguments positionally and every
\* further parameter has a default
DefaultedAcceptors(argtys) ==
    {i \in 1..Len(funcs) :
        /\ funcs[i].name = "f"
        /\ \E k \in 1..Len(funcs[i].params) : funcs[i].params[k].dflt
        /\ Len(funcs[i].params) >= Len(argtys)
        /\ \A k \in 1..Len(argtys) : funcs[i].params[k].ty = argtys[k]
        /\ \A k \in (Len(argtys) + 1)..Len(funcs[i].params) :
              funcs[i].params[k].dflt}

\* C11: when several registered functions with trailing defaults accept a
\* call, it resolves to the first of them in declaration order; a later
\* candidate neither overrides it nor makes the call fail.
C11_FirstDeclaredWins ==
    [][\A a \in ArgLists({"i32", "f64"}, MaxArgs) :
         (/\ codegen_Call("f", a)
          /\ ExactSignatures(a) = {}
          /\ Cardinality(DefaultedAcceptors(a)) >= 2) =>
            /\ last'.st = "ok"
            /\ \A i \in DefaultedAcceptors(a) : last'.callee <= i]_vars

\* the class of the error an engine raises for a call of the wrong arity
ArityErrOf(e) == IF e = "aki" THEN "AkiSyntaxErr" ELSE "CodegenError"

\* the supplied arguments agree with the first parameters of function i
SuppliedMatch(i, argtys) ==
    \A k \in 1..Len(argtys) :
        k <= Len(funcs[i].params) => funcs[i].params[k].ty = argtys[k]

\* C12: a call that supplies fewer arguments than its callee declares
\* succeeds exactly when every omitted parameter has a default, and then
\* passes the supplied arguments followed by the defaults of the omitted
\* parameters in order; otherwise it fails with an arity error.
C12_DefaultsFill ==
    [][\A a \in ArgLists({"i32", "f64"}, MaxArgs) :
         (/\ codegen_Call("f", a)
          /\ Len(funcs) = 1
          /\ Len(a) < Len(funcs[1].params)
          /\ SuppliedMatch(1, a)) =>
            IF \A k \in (Len(a) + 1)..Len(funcs[1].params) :
                  funcs[1].params[k].dflt
            THEN /\ last'.st = "ok"
                 /\ last'.callee = 1
                 /\ last'.args =
                      [k \in 1..Len(funcs[1].params) |->
                         IF k <= Len(a) THEN a[k] ELSE "default"]
            ELSE last'.st = ArityErrOf(engine)]_vars

\* C13: a call that supplies more arguments than its callee has parameters
\* is accepted exactly when the callee is variadic, and then the extra
\* arguments are passed on whatever their types; for any other callee the
\* call fails with an arity error that lists the declared parameters.
C13_ExtraArguments ==
    [][\A a \in ArgLists({"i32", "f64"}, MaxArgs) :
         (/\ codegen_Call("f", a)
          /\ Len(funcs) = 1
          /\ Len(a) > Len(funcs[1].params)
          /\ SuppliedMatch(1, a)) =>
            IF funcs[1].vararg
            THEN /\ last'.st = "ok"
                 /\ last'.callee = 1
                 /\ last'.args = a
            ELSE /\ last'.st = ArityErrOf(engine)
                 /\ last'.msg = TypesOf(funcs[1].params)]_vars

\* the parameters with a default are a contiguous trailing suffix
TrailingDefaults(ps) ==
    \A i \in 1..Len(ps) : ps[i].dflt => \A j \in i..Len(ps) : ps[j].dflt

\* C14: a prototype in which a parameter without a default follows one
\* with a default is refused; every prototype in the module has its
\* defaulted parameters as a trailing suffix; in both engines.
C14_DefaultsTrailing ==
    \A i \in 1..Len(funcs) : TrailingDefaults(funcs[i].params)

\* the compiler errors Repl.run catches and reports before the next turn
AkiBaseErr == {"AkiNameErr", "AkiTypeErr", "AkiSyntaxErr", "AkiOpError"}

\* the function registered in funcs under the name n, if any
Registered(fs, n) == {i \in 1..Len(fs) : fs[i].name = n}

\* C15: an interactive turn is a top-level declaration lowered into the
\* persistent module (Repl.interactive hands it to main.codegen.eval).  When
\* the turn fails with a compiler error, the module's global table is the one
\* from before the turn: a declaration that failed at its prototype leaves
\* the table as it was, and one that failed in its body leaves no function
\* of its name behind (the name was free when the turn began).
C15_FailedTurnRestores ==
    [][(engine = "aki" /\ mode' = "failed" /\ last'.st \in AkiBaseErr) =>
          /\ mode # "body" => (globals' = globals /\ funcs' = funcs)
          /\ (mode = "body" /\ fn.name \in GNames) =>
                (globals'[fn.name] = None /\ Registered(funcs', fn.name) = {})
      ]_vars

\* C16: a function lowered without error has one return instruction, in
\* its exit block; every `return` statement branches to the exit block, and
\* so does the end of the body unless its block is already terminated.
C16_SingleReturn ==
    [][/\ (EndFunction /\ mode' = "top") =>
             (rets' = 1 /\ (last'.tgt = ExitBlock \/ closed))
       /\ \A t \in Types :
             (codegen_Return(t) /\ ~Raised(last')) => last'.tgt = ExitBlock
      ]_vars

\* a prototype that names no return type
Unspecified == {"unnamed", "none"}

\* the epilogue refused the body's type as the function's return type
ReturnMismatch(r) ==
    r.op = "function" /\ r.st = TypeErrOf(engine) /\ r.msg # <<>>

\* C17: when the prototype names no return type, the epilogue does not fail
\* with a return-type mismatch, and the function it completes returns the
\* type of the body's trailing expression; named and synthetic functions.
C17_InferredReturnType ==
    [][(EndFunction /\ fn.rty \in Unspecified /\ last.st = "ok") =>
          /\ ~ReturnMismatch(last')
          /\ mode' = "top" => last'.ty = last.ty
      ]_vars

\* C18: a three-condition loop whose stop expression is zero at the first
\* test yields the initial value of its counter: what the handler returns
\* is the counter's storage, holding the value the start expression gave it
\* (the body and the step have not run).
C18_ZeroTripLoop ==
    [][\A sty \in {"i32", "f64"} :
          (LeaveLoop3(sty) /\ Top(open).stop = 0 /\ ~Raised(last')) =>
             /\ last'.st = "ok"
             /\ last'.ref = Top(open).var.slot
             /\ last'.val = Top(open).init
      ]_vars

\* C19: after a three-condition loop the variable the loop declared is not
\* bound any more; a binding of that name from before the loop is the
\* binding again, and every other binding from before the loop is unchanged.
C19_LoopVariableScope ==
    [][\A sty \in {"i32", "f64"} :
          (LeaveLoop3(sty) /\ ~Raised(last')) =>
             LET f == Top(open) IN
             /\ symtab'[f.name] = f.before[f.name]
             /\ \A m \in GNames :
                   f.before[m] # None => symtab'[m] = f.before[m]
      ]_vars

C21_NoShadowing ==
    [][\A n \in GNames, ity \in {"-", "i32"} :
          (EnterWith(n, "-", ity) /\
           (symtab[n] # None \/ globals[n] # None)) =>
             (Raised(last') /\ symtab' = symtab)
      ]_vars

\* C22: `not x` on a scalar x lowers without error and yields a value of
\* the type of x that is 1 when x is the zero of its type and 0 otherwise.
C22_NotPreservesType ==
    [][\A t \in Types, v \in Vals :
          codegen_Not(t, v) =>
             /\ last'.st = "ok"
             /\ last'.ty = t
             /\ last'.val = IF v = 0 THEN 1 ELSE 0
      ]_vars

\* C23: a While loop that ran at least one iteration yields the value its
\* body produced in the last iteration: the storage read after the loop is
\* the storage the last iteration stored into.
C23_WhileYieldsLastBody ==
    [][\A k \in 1..MaxIters, u \in Vals :
          (LeaveWhile(k, u) /\ ~Raised(last') /\ last.cls = "const") =>
             /\ While_LoadInstance(k) = While_StoreInstance(k)
             /\ last'.val = last.val
      ]_vars

\* C24: every value handle a lowering rule of the aki engine returns carries
\* both its resolved type (akitype) and the node that produced it (akinode).
C24_HandlesCarryMetadata ==
    [][\A n \in Names, meta \in SUBSET HandleAttrs :
          (codegen_AccessorExpr(n, TRUE, meta, "i32", TRUE)
             /\ last'.st = "ok") =>
             HandleAttrs \subseteq last'.attrs
      ]_vars

\* the branch whose result is r ended in an early return
ReturnedEarly(r) == r.op = "return" /\ r.st = "none"

\* C25: core: an `if` with an else clause in which exactly one branch ends
\* in an early return lowers successfully and yields the type of the other
\* branch, whichever branch returns; when both return it lowers successfully
\* and yields no value.
C25_IfWithEarlyReturn ==
    [][(/\ LeaveIf
        /\ engine = "core"
        /\ Top(open).hasElse
        /\ ~Top(open).isWhen) =>
          LET t == Top(open).thenres
              e == last
          IN /\ (ReturnedEarly(t) /\ e.st = "ok") =>
                   (last'.st = "typeobj" /\ last'.ty = e.ty)
             /\ (t.st = "ok" /\ ReturnedEarly(e)) =>
                   (last'.st = "typeobj" /\ last'.ty = t.ty)
             /\ (ReturnedEarly(t) /\ ReturnedEarly(e)) =>
                   (last'.st = "none" /\ mode' = "body")
      ]_vars

\* C26: a builtin intrinsic called with a number of arguments different from
\* its arity fails with the engine's syntax error and with no other error;
\* in both engines.
C26_BuiltinArity ==
    [][\A name \in Aki_Builtins \cup Core_Builtins, nargs \in 0..MaxArgs :
          ((\E rest \in {Ok(name, "i32", -1, "instr")} :
                codegen_Builtin(name, nargs, rest))
             /\ nargs # Arity(name)) =>
             last'.st \in SyntaxErrOf(engine)
      ]_vars

\* the walk is inside the body of an unsafe block
InUnsafeBody == \E i \in 1..Len(open) : open[i].kind = "unsafe"

\* C28: the unsafe flag is set only while the body of an unsafe block is
\* being lowered and is clear afterwards, so that `cast` outside an unsafe
\* block is rejected with the syntax error.
C28_UnsafeOnlyInBlock ==
    [][engine = "aki" =>
         /\ (mode' = "body" /\ unsafe_set') => InUnsafeBody'
         /\ \A nargs \in 0..MaxArgs :
               ((\E rest \in {Ok("cast", "i32", -1, "instr")} :
                     codegen_Builtin("cast", nargs, rest))
                  /\ ~InUnsafeBody) =>
                  last'.st \in SyntaxErrOf("aki")
      ]_vars

\* C27: a zero-condition loop pushes exactly one exit target on the
\* breakpoint stack and removes it when the loop is left: once the loop has
\* been lowered the stack is the one from before the loop, however many
\* `break`s its body holds; in both engines.
C27_LoopRestoresBreakpoints ==
    [][/\ (EnterLoop /\ ~Raised(last')) =>
             breakpoints' = Push(breakpoints, nblk')
       /\ (LeaveLoop /\ ~Raised(last')) =>
             breakpoints' = Top(open).before
      ]_vars

\* the kinds of frame that are loops, and the innermost open loop
LoopKinds == {"loop0", "loop3", "while"}
LoopsOpen(stack) == {i \in 1..Len(stack) : stack[i].kind \in LoopKinds}
DirectLoop(stack) ==
    CHOOSE i \in LoopsOpen(stack) : \A j \in LoopsOpen(stack) : j <= i

\* the exit blocks of the loops around the innermost open loop
OuterExits(stack) ==
    {stack[i].exit : i \in {j \in LoopsOpen(stack) :
                               /\ j < DirectLoop(stack)
                               /\ stack[j].kind = "loop0"}}

\* C29: a `break` in the body of a three-condition loop or of a While never
\* branches to the exit of an outer loop: it targets the exit of the loop
\* that directly contains it, or it is rejected.
C29_BreakStaysInLoop ==
    [][(/\ codegen_Break
        /\ LoopsOpen(open) # {}
        /\ open[DirectLoop(open)].kind \in {"loop3", "while"}) =>
          \/ Raised(last')
          \/ last'.tgt \notin OuterExits(open)
      ]_vars

\* a step that appended an instruction to the builder's current block
AppendsInstruction ==
    /\ \E op \in BinOps, ty \in Types, z \in BOOLEAN :
          codegen_Binary(op, ty, ty, z)
    /\ last'.st = "ok"
    /\ last'.cls = "instr"

\* a step that appended a branch to the builder's current block
AppendsBranch ==
    /\ codegen_Break \/ (\E ty \in Types : codegen_Return(ty))
    /\ last'.st = "none"
    /\ closed'

\* C30: no block receives a second terminator: once a `break` or `return`
\* has emitted its branch in the current block, nothing that is lowered
\* afterwards appends another instruction or branch to that block.
C30_NothingAfterTerminator ==
    [][closed => (~AppendsBranch /\ ~AppendsInstruction)]_vars

====
